---- MODULE Spec2Model ----
(***************************************************************************)
(* The 2048 game core (src/src/game.py, class Game): the board, the line   *)
(* primitives, the four session moves, the spawner and the terminal        *)
(* queries, as a state machine over one Game object; around it the window  *)
(* (src/src/ui.py, class GameUI) with its key handlers and the high-score  *)
(* helpers that read and write HIGHSCORE_FILE.                             *)
(* The Game class of the single-file program (src/src/2048_game.py) is     *)
(* translated beside it and run under the same random choices.             *)
(*                                                                         *)
(* A grid is a sequence of rows, a row a sequence of integers, indexed     *)
(* from 1 (Python's index i is i + 1 here).  Every method of Game is an    *)
(* operator from the object's fields to the set of outcomes the random     *)
(* source allows; an action picks one outcome.                             *)
(***************************************************************************)
EXTENDS Integers, Sequences, FiniteSets

VARIABLES
    size,      \* Game.size
    grid,      \* Game.grid
    score,     \* Game.score
    op,        \* the method called last: "new" after Game(), "any" on a session
               \* given its board, on which no method has been called yet
    ret,       \* the value it returned (FALSE for the methods returning None)
    placed,    \* tiles the spawner placed during that call
    skipped,   \* times the spawner took its no-empty-cell return in that call
    old_grid,  \* Game.grid when that method was called
    old_score, \* Game.score when that method was called
    line,      \* the argument of the line primitives (line-level specification)
    lop,       \* the line primitive applied last
    lres,      \* its result: [line, gained]
    target,    \* the argument of is_win in the last call (0 when it was not called)
    highscore, \* GameUI.highscore
    file,      \* the content of HIGHSCORE_FILE
    event,     \* what the window handled last: "start", "key", "restart"
    shown,     \* the titles of the messages that event showed
    saved,     \* how save_highscore ended in that event ("" when not called)
    raised,    \* whether a high-score helper let an exception out in that event
    old_highscore, \* GameUI.highscore when that event arrived
    old_file,  \* the content of HIGHSCORE_FILE when that event arrived
    single_grid,   \* Game.grid of the single-file program's Game object
    single_score,  \* its Game.score
    single_ret,    \* what the method called last on it returned
    single_placed  \* tiles its spawner placed during that call

\* The fields of the Game object and the record of the last call on it.
session == <<size, grid, score, op, ret, placed, skipped, old_grid, old_score, target>>

\* The line primitives' argument and result.
lines == <<line, lop, lres>>

\* The window's state and the high-score file.
window == <<highscore, file, event, shown, saved, raised, old_highscore, old_file>>

\* The Game object of 2048_game.py run beside the one of game.py.
single == <<single_grid, single_score, single_ret, single_placed>>

vars == <<session, lines, window, single>>

(***************************************************************************)
(* Configuration and bounds                                                *)
(***************************************************************************)
GRID_SIZE == 4
START_TILES == 2

\* Sessions are constructed as Game(size = n) for n in 2..MaxSize.
MaxSize == 2
\* Boards written into a session are n x n for n in 2..MaxBoard.
MaxBoard == 3
\* A move that changes the board is taken only while the tiles add up to at
\* most MaxSum, and the boards written into a session add up to at most
\* MaxSum: the value of MaxTwos tiles of 2 (tile sums are even).
MaxTwos == 6
\* The line primitives are applied to every line of length 0..MaxLen.
MaxLen == 4
\* In the window started by main(), a key whose move changes the board is
\* handled only while the tiles add up to at most the value of
\* MaxWindowTwos tiles of 2.
MaxWindowTwos == 4
\* Where the two programs run side by side, random.choice is handed the
\* random states 0..MaxPick.
MaxPick == 3
\* In that window the random source places its tiles in the first MaxSpan
\* rows and columns only.
MaxSpan == 2

MaxSum == 2 * MaxTwos

Sizes == 2..MaxSize

BoardSizes == 2..MaxBoard

RECURSIVE Pow2(_)
Pow2(k) == IF k = 0 THEN 1 ELSE 2 * Pow2(k - 1)

IsTile(v) == \E k \in 1..16 : v = Pow2(k)

\* The tile values a drawn board or line may hold: 0 and the powers of two
\* from 2 up to MaxSum.
TileVals == {0} \cup {v \in 2..MaxSum : IsTile(v)}

RECURSIVE SumSeq(_)
SumSeq(s) == IF s = <<>> THEN 0 ELSE Head(s) + SumSeq(Tail(s))

RECURSIVE SumGrid(_)
SumGrid(g) == IF g = <<>> THEN 0 ELSE SumSeq(Head(g)) + SumGrid(Tail(g))

Cells(n) == (1..n) \X (1..n)

\* A function on 1..k as the sequence of its values (a Python list).
List(f, k) == SubSeq(f, 1, k)

(***************************************************************************)
(* Line primitives                                                         *)
(***************************************************************************)
NonZero(v) == v # 0

Zeros(k) == List([i \in 1..k |-> 0], k)

\* _compress_line with the zeros put in front: [0] * k + new.
compress_line_right(l) ==
    LET new == SelectSeq(l, NonZero)
    IN  Zeros(Len(l) - Len(new)) \o new

\* _compress_line: the non-zero values in order, then zeros up to the length.
compress_line(l) ==
    LET new == SelectSeq(l, NonZero)
    IN  new \o Zeros(Len(l) - Len(new))

\* The loop with "+= 2" in place of "*= 2".
RECURSIVE merge_scan_add(_, _, _)
merge_scan_add(compressed, i, gained) ==
    IF i > Len(compressed) - 1
    THEN [line |-> compressed, gained |-> gained]
    ELSE IF compressed[i] # 0 /\ compressed[i] = compressed[i + 1]
         THEN merge_scan_add([compressed EXCEPT ![i] = compressed[i] + 2, ![i + 1] = 0],
                             i + 1, gained + compressed[i] + 2)
         ELSE merge_scan_add(compressed, i + 1, gained)

\* The loop without "compressed[i + 1] = 0": the merged partner stays.
RECURSIVE merge_scan_keep(_, _, _)
merge_scan_keep(compressed, i, gained) ==
    IF i > Len(compressed) - 1
    THEN [line |-> compressed, gained |-> gained]
    ELSE IF compressed[i] # 0 /\ compressed[i] = compressed[i + 1]
         THEN merge_scan_keep([compressed EXCEPT ![i] = compressed[i] * 2],
                              i + 1, gained + compressed[i] * 2)
         ELSE merge_scan_keep(compressed, i + 1, gained)

\* The loop without "compressed[i] *= 2": the pair leaves one tile of the
\* old value.
RECURSIVE merge_scan_single(_, _, _)
merge_scan_single(compressed, i, gained) ==
    IF i > Len(compressed) - 1
    THEN [line |-> compressed, gained |-> gained]
    ELSE IF compressed[i] # 0 /\ compressed[i] = compressed[i + 1]
         THEN merge_scan_single([compressed EXCEPT ![i + 1] = 0],
                                i + 1, gained + compressed[i])
         ELSE merge_scan_single(compressed, i + 1, gained)

\* The loop with "gained += compressed[i]" ahead of "compressed[i] *= 2": the
\* value counted is the one before doubling.
RECURSIVE merge_scan_gain_first(_, _, _)
merge_scan_gain_first(compressed, i, gained) ==
    IF i > Len(compressed) - 1
    THEN [line |-> compressed, gained |-> gained]
    ELSE IF compressed[i] # 0 /\ compressed[i] = compressed[i + 1]
         THEN merge_scan_gain_first([compressed EXCEPT ![i] = compressed[i] * 2, ![i + 1] = 0],
                                    i + 1, gained + compressed[i])
         ELSE merge_scan_gain_first(compressed, i + 1, gained)

\* The for loop of _merge_line, from index i on, over the list `compressed`
\* it mutates in place.
RECURSIVE merge_scan(_, _, _)
merge_scan(compressed, i, gained) ==
    IF i > Len(compressed) - 1
    THEN [line |-> compressed, gained |-> gained]
    ELSE IF compressed[i] # 0 /\ compressed[i] = compressed[i + 1]
         THEN merge_scan([compressed EXCEPT ![i] = compressed[i] * 2, ![i + 1] = 0],
                         i + 1, gained + compressed[i] * 2)
         ELSE merge_scan(compressed, i + 1, gained)

\* _merge_line with the scan repeated on its own result, so that a merged
\* tile merges again in the same pass.
merge_line_again(l) ==
    LET once == merge_scan(compress_line(l), 1, 0)
        twice == merge_scan(compress_line(once.line), 1, once.gained)
    IN  [line |-> compress_line(twice.line), gained |-> twice.gained]

\* _merge_line without the second _compress_line.
merge_line_unpacked(l) == merge_scan(compress_line(l), 1, 0)

\* _merge_line: compress, scan, compress again.
merge_line(l) ==
    LET scanned == merge_scan(compress_line(l), 1, 0)
    IN  [line |-> compress_line(scanned.line), gained |-> scanned.gained]

(***************************************************************************)
(* Grid transforms                                                         *)
(***************************************************************************)
\* _transpose_grid over the rows in reverse order, zip(*reversed(grid)): a
\* quarter turn.
transpose_grid_turned(g) ==
    List([c \in 1..Len(g) |->
            List([r \in 1..Len(g) |-> g[Len(g) + 1 - r][c]], Len(g))], Len(g))

\* _transpose_grid: [list(row) for row in zip(*grid)]
transpose_grid(g) ==
    List([c \in 1..Len(g) |-> List([r \in 1..Len(g) |-> g[r][c]], Len(g))], Len(g))

\* _reverse_grid: [list(reversed(row)) for row in grid]
reverse_grid(g) ==
    List([r \in 1..Len(g) |->
            List([c \in 1..Len(g[r]) |-> g[r][Len(g[r]) + 1 - c]], Len(g[r]))], Len(g))

(***************************************************************************)
(* Spawner                                                                 *)
(***************************************************************************)
EmptyCells(g, n) == {rc \in Cells(n) : g[rc[1]][rc[2]] = 0}

\* spawn_random choosing among all cells instead of the empty ones.
spawn_random_anywhere(g, n) ==
    {[grid |-> [g EXCEPT ![rc[1]][rc[2]] = v], placed |-> 1, skipped |-> 0] :
        rc \in Cells(n), v \in {4, 2}}

\* spawn_random listing the occupied cells ("!= 0") instead of the empty ones.
spawn_random_occupied(g, n) ==
    IF Cells(n) \ EmptyCells(g, n) = {}
    THEN {[grid |-> g, placed |-> 0, skipped |-> 1]}
    ELSE {[grid |-> [g EXCEPT ![rc[1]][rc[2]] = v], placed |-> 1, skipped |-> 0] :
            rc \in Cells(n) \ EmptyCells(g, n), v \in {4, 2}}

\* spawn_random: every outcome of random.choice(empty) and of the draw
\* random.random() < 0.1; without an empty cell, the early return.
spawn_random(g, n) ==
    IF EmptyCells(g, n) = {}
    THEN {[grid |-> g, placed |-> 0, skipped |-> 1]}
    ELSE {[grid |-> [g EXCEPT ![rc[1]][rc[2]] = v], placed |-> 1, skipped |-> 0] :
            rc \in EmptyCells(g, n), v \in {4, 2}}

\* k calls of spawn_random in a row, counting tiles placed and early returns.
RECURSIVE spawn_times(_, _, _)
spawn_times(g, n, k) ==
    IF k = 0
    THEN {[grid |-> g, placed |-> 0, skipped |-> 0]}
    ELSE UNION {{[grid |-> b.grid,
                  placed |-> a.placed + b.placed,
                  skipped |-> a.skipped + b.skipped] : b \in spawn_times(a.grid, n, k - 1)} :
                a \in spawn_random(g, n)}

(***************************************************************************)
(* Session operations                                                      *)
(***************************************************************************)
\* reset with the loop one short: range(START_TILES - 1).
reset_one_short(n) ==
    {[grid |-> o.grid, score |-> 0, ret |-> FALSE,
      placed |-> o.placed, skipped |-> o.skipped] :
        o \in spawn_times(List([r \in 1..n |-> Zeros(n)], n), n, START_TILES - 1)}

\* reset: an all-zero grid, score 0, START_TILES spawns.
reset(n) ==
    {[grid |-> o.grid, score |-> 0, ret |-> FALSE,
      placed |-> o.placed, skipped |-> o.skipped] :
        o \in spawn_times(List([r \in 1..n |-> Zeros(n)], n), n, START_TILES)}

\* The row loop of move_left: each row is replaced by its merged line when
\* that differs from the row, and only then is its gain counted.
RECURSIVE slide_rows(_, _, _)
slide_rows(g, r, acc) ==
    IF r > Len(g)
    THEN acc
    ELSE LET m == merge_line(g[r])
         IN  IF m.line # g[r]
             THEN slide_rows(g, r + 1,
                             [grid |-> [acc.grid EXCEPT ![r] = m.line],
                              moved |-> TRUE,
                              total_gained |-> acc.total_gained + m.gained])
             ELSE slide_rows(g, r + 1, acc)

slide_left(g) == slide_rows(g, 1, [grid |-> g, moved |-> FALSE, total_gained |-> 0])

\* can_move without its third loop (the columns).
can_move_rows_only(g, n) ==
    \/ \E r \in 1..n, c \in 1..n : g[r][c] = 0
    \/ \E r \in 1..n, c \in 1..(n - 1) : g[r][c] = g[r][c + 1]

\* can_move without its first loop (the empty cells).
can_move_no_empty(g, n) ==
    \/ \E r \in 1..n, c \in 1..(n - 1) : g[r][c] = g[r][c + 1]
    \/ \E c \in 1..n, r \in 1..(n - 1) : g[r][c] = g[r + 1][c]

\* can_move: an empty cell, or two equal neighbours in a row, or in a column.
can_move(g, n) ==
    \/ \E r \in 1..n, c \in 1..n : g[r][c] = 0
    \/ \E r \in 1..n, c \in 1..(n - 1) : g[r][c] = g[r][c + 1]
    \/ \E c \in 1..n, r \in 1..(n - 1) : g[r][c] = g[r + 1][c]

\* The default of is_win's parameter target.
WIN_TARGET == 2048

\* is_win with ">" in place of ">=".
is_win_above(g, n, t) == \E r \in 1..n, c \in 1..n : g[r][c] > t

\* is_win: some cell holds at least target.
is_win(g, n, t) == \E r \in 1..n, c \in 1..n : g[r][c] >= t

\* move_left with "self.score = total_gained" in place of "+=".
move_left_set_score(g, s, n) ==
    LET slid == slide_left(g)
    IN  IF slid.moved
        THEN {[grid |-> o.grid, score |-> slid.total_gained, ret |-> TRUE,
               placed |-> o.placed, skipped |-> o.skipped] :
                o \in spawn_random(slid.grid, n)}
        ELSE {[grid |-> slid.grid, score |-> s, ret |-> FALSE,
               placed |-> 0, skipped |-> 0]}

\* move_left with the spawn outside "if moved".
move_left_always_spawn(g, s, n) ==
    LET slid == slide_left(g)
    IN  {[grid |-> o.grid, score |-> s + slid.total_gained, ret |-> slid.moved,
          placed |-> o.placed, skipped |-> o.skipped] :
            o \in spawn_random(slid.grid, n)}

\* move_left refusing to act once the session is won or stuck.
move_left_halting(g, s, n) ==
    LET slid == slide_left(g)
    IN  IF slid.moved /\ ~is_win(g, n, WIN_TARGET) /\ can_move(g, n)
        THEN {[grid |-> o.grid, score |-> s + slid.total_gained, ret |-> TRUE,
               placed |-> o.placed, skipped |-> o.skipped] :
                o \in spawn_random(slid.grid, n)}
        ELSE {[grid |-> g, score |-> s, ret |-> FALSE,
               placed |-> 0, skipped |-> 0]}

\* move_left: the row loop, then score and one spawn when a row changed.
move_left(g, s, n) ==
    LET slid == slide_left(g)
    IN  IF slid.moved
        THEN {[grid |-> o.grid, score |-> s + slid.total_gained, ret |-> TRUE,
               placed |-> o.placed, skipped |-> o.skipped] :
                o \in spawn_random(slid.grid, n)}
        ELSE {[grid |-> slid.grid, score |-> s, ret |-> FALSE,
               placed |-> 0, skipped |-> 0]}

\* move_right: _reverse_grid, move_left, _reverse_grid.
move_right(g, s, n) ==
    {[o EXCEPT !.grid = reverse_grid(o.grid)] : o \in move_left(reverse_grid(g), s, n)}

\* move_up: _transpose_grid, move_left, _transpose_grid.
move_up(g, s, n) ==
    {[o EXCEPT !.grid = transpose_grid(o.grid)] : o \in move_left(transpose_grid(g), s, n)}

\* move_down calling move_left where the code calls move_right.
move_down_via_left(g, s, n) ==
    {[o EXCEPT !.grid = transpose_grid(o.grid)] : o \in move_left(transpose_grid(g), s, n)}

\* move_down: _transpose_grid, move_right, _transpose_grid.
move_down(g, s, n) ==
    {[o EXCEPT !.grid = transpose_grid(o.grid)] : o \in move_right(transpose_grid(g), s, n)}

Moves == {"move_left", "move_right", "move_up", "move_down"}

\* The grid a move holds when its row loop is over, before score and spawn:
\* the move's transforms around the row loop of move_left.
engine(d, g) ==
    CASE d = "move_left"  -> slide_left(g).grid
      [] d = "move_right" -> reverse_grid(slide_left(reverse_grid(g)).grid)
      [] d = "move_up"    -> transpose_grid(slide_left(transpose_grid(g)).grid)
      [] d = "move_down"  ->
            transpose_grid(reverse_grid(
                slide_left(reverse_grid(transpose_grid(g))).grid))

\* The outcomes of the session move named d.
move(d, g, s, n) ==
    CASE d = "move_left"  -> move_left(g, s, n)
      [] d = "move_right" -> move_right(g, s, n)
      [] d = "move_up"    -> move_up(g, s, n)
      [] d = "move_down"  -> move_down(g, s, n)

(***************************************************************************)
(* The random source made explicit.  One choice is what the module random  *)
(* hands to one placement of a tile: pick decides random.choice(empty),    *)
(* four says whether random.random() fell below 0.1.                       *)
(***************************************************************************)
\* The cells in the order of "for r in range(size) for c in range(size)".
CellSeq(n) == List([k \in 1..(n * n) |-> <<((k - 1) \div n) + 1, ((k - 1) % n) + 1>>], n * n)

\* The list `empty` of spawn_random.
EmptyList(g, n) == SelectSeq(CellSeq(n), LAMBDA rc : g[rc[1]][rc[2]] = 0)

\* random.choice(seq) under the random state r: one element, the same for
\* lists of the same length.
choice(seq, r) == seq[(r % Len(seq)) + 1]

\* spawn_random of game.py under the choice c.
spawn_random_drawn(g, n, c) ==
    LET empty == EmptyList(g, n)
    IN  IF empty = <<>>
        THEN [grid |-> g, placed |-> 0]
        ELSE LET rc == choice(empty, c.pick)
             IN  [grid |-> [g EXCEPT ![rc[1]][rc[2]] = IF c.four THEN 4 ELSE 2],
                  placed |-> 1]

\* The spawns of "for _ in range(START_TILES)", one choice each.
RECURSIVE spawn_each_drawn(_, _, _, _)
spawn_each_drawn(g, n, cs, done) ==
    IF cs = <<>>
    THEN [grid |-> g, placed |-> done]
    ELSE LET o == spawn_random_drawn(g, n, Head(cs))
         IN  spawn_each_drawn(o.grid, n, Tail(cs), done + o.placed)

\* reset of game.py under the choices cs.
reset_drawn(n, cs) ==
    LET o == spawn_each_drawn(List([r \in 1..n |-> Zeros(n)], n), n, cs, 0)
    IN  [grid |-> o.grid, score |-> 0, ret |-> FALSE, placed |-> o.placed]

\* Game(size = n, grid = g, score = s) of game.py: __post_init__ calls reset
\* when the grid is empty.
post_init_drawn(n, g, s, cs) ==
    IF g = <<>>
    THEN reset_drawn(n, cs)
    ELSE [grid |-> g, score |-> s, ret |-> FALSE, placed |-> 0]

\* move_left of game.py under the choice c.
move_left_drawn(g, s, n, c) ==
    LET slid == slide_left(g)
    IN  IF slid.moved
        THEN LET o == spawn_random_drawn(slid.grid, n, c)
             IN  [grid |-> o.grid, score |-> s + slid.total_gained, ret |-> TRUE,
                  placed |-> o.placed]
        ELSE [grid |-> slid.grid, score |-> s, ret |-> FALSE, placed |-> 0]

move_right_drawn(g, s, n, c) ==
    LET o == move_left_drawn(reverse_grid(g), s, n, c)
    IN  [o EXCEPT !.grid = reverse_grid(o.grid)]

move_up_drawn(g, s, n, c) ==
    LET o == move_left_drawn(transpose_grid(g), s, n, c)
    IN  [o EXCEPT !.grid = transpose_grid(o.grid)]

move_down_drawn(g, s, n, c) ==
    LET o == move_right_drawn(transpose_grid(g), s, n, c)
    IN  [o EXCEPT !.grid = transpose_grid(o.grid)]

move_drawn(d, g, s, n, c) ==
    CASE d = "move_left"  -> move_left_drawn(g, s, n, c)
      [] d = "move_right" -> move_right_drawn(g, s, n, c)
      [] d = "move_up"    -> move_up_drawn(g, s, n, c)
      [] d = "move_down"  -> move_down_drawn(g, s, n, c)

(***************************************************************************)
(* The Game class of the single-file program (src/src/2048_game.py)        *)
(***************************************************************************)
\* _compress_line: the packed line and a 0, as a pair.
single_compress_line(l) ==
    LET new == SelectSeq(l, NonZero)
    IN  <<new \o Zeros(Len(l) - Len(new)), 0>>

\* The for loop of _merge_line.
RECURSIVE single_merge_scan(_, _, _)
single_merge_scan(compressed, i, gained) ==
    IF i > Len(compressed) - 1
    THEN [line |-> compressed, gained |-> gained]
    ELSE IF compressed[i] # 0 /\ compressed[i] = compressed[i + 1]
         THEN single_merge_scan([compressed EXCEPT ![i] = compressed[i] * 2, ![i + 1] = 0],
                                i + 1, gained + compressed[i] * 2)
         ELSE single_merge_scan(compressed, i + 1, gained)

\* _merge_line: the first component of each _compress_line pair is used.
single_merge_line(l) ==
    LET compressed == single_compress_line(l)[1]
        scanned == single_merge_scan(compressed, 1, 0)
        final == single_compress_line(scanned.line)[1]
    IN  [line |-> final, gained |-> scanned.gained]

\* The row loop of move_left.
RECURSIVE single_slide_rows(_, _, _)
single_slide_rows(g, r, acc) ==
    IF r > Len(g)
    THEN acc
    ELSE LET m == single_merge_line(g[r])
         IN  IF m.line # g[r]
             THEN single_slide_rows(g, r + 1,
                                    [moved |-> TRUE,
                                     grid |-> [acc.grid EXCEPT ![r] = m.line],
                                     total_gained |-> acc.total_gained + m.gained])
             ELSE single_slide_rows(g, r + 1, acc)

single_slide_left(g) ==
    single_slide_rows(g, 1, [moved |-> FALSE, grid |-> g, total_gained |-> 0])

single_spawn_random(g, n, c) ==
    LET empty == EmptyList(g, n)
    IN  IF empty = <<>>
        THEN [grid |-> g, placed |-> 0]
        ELSE LET rc == choice(empty, c.pick)
             IN  [grid |-> [g EXCEPT ![rc[1]][rc[2]] = IF c.four THEN 4 ELSE 2],
                  placed |-> 1]

RECURSIVE single_spawn_each(_, _, _, _)
single_spawn_each(g, n, cs, done) ==
    IF cs = <<>>
    THEN [grid |-> g, placed |-> done]
    ELSE LET o == single_spawn_random(g, n, Head(cs))
         IN  single_spawn_each(o.grid, n, Tail(cs), done + o.placed)

\* reset with the score kept, as __post_init__ leaves it.
single_reset_score_kept(n, s, cs) ==
    LET o == single_spawn_each(List([r \in 1..n |-> Zeros(n)], n), n, cs, 0)
    IN  [grid |-> o.grid, score |-> s, ret |-> FALSE, placed |-> o.placed]

\* reset: an all-zero grid, score 0, START_TILES spawns.
single_reset(n, s, cs) ==
    LET o == single_spawn_each(List([r \in 1..n |-> Zeros(n)], n), n, cs, 0)
    IN  [grid |-> o.grid, score |-> 0, ret |-> FALSE, placed |-> o.placed]

\* Game(size = n, grid = g, score = s): __post_init__ fills an empty grid
\* itself, without calling reset, and leaves the score it was given.
single_post_init(n, g, s, cs) ==
    IF g = <<>>
    THEN LET o == single_spawn_each(List([r \in 1..n |-> Zeros(n)], n), n, cs, 0)
         IN  [grid |-> o.grid, score |-> s, ret |-> FALSE, placed |-> o.placed]
    ELSE [grid |-> g, score |-> s, ret |-> FALSE, placed |-> 0]

single_transpose_grid(g) ==
    List([c \in 1..Len(g) |-> List([r \in 1..Len(g) |-> g[r][c]], Len(g))], Len(g))

single_reverse_grid(g) ==
    List([r \in 1..Len(g) |->
            List([c \in 1..Len(g[r]) |-> g[r][Len(g[r]) + 1 - c]], Len(g[r]))], Len(g))

single_move_left(g, s, n, c) ==
    LET slid == single_slide_left(g)
    IN  IF slid.moved
        THEN LET o == single_spawn_random(slid.grid, n, c)
             IN  [grid |-> o.grid, score |-> s + slid.total_gained, ret |-> TRUE,
                  placed |-> o.placed]
        ELSE [grid |-> slid.grid, score |-> s, ret |-> FALSE, placed |-> 0]

single_move_right(g, s, n, c) ==
    LET o == single_move_left(single_reverse_grid(g), s, n, c)
    IN  [o EXCEPT !.grid = single_reverse_grid(o.grid)]

single_move_up(g, s, n, c) ==
    LET o == single_move_left(single_transpose_grid(g), s, n, c)
    IN  [o EXCEPT !.grid = single_transpose_grid(o.grid)]

single_move_down(g, s, n, c) ==
    LET o == single_move_right(single_transpose_grid(g), s, n, c)
    IN  [o EXCEPT !.grid = single_transpose_grid(o.grid)]

single_move(d, g, s, n, c) ==
    CASE d = "move_left"  -> single_move_left(g, s, n, c)
      [] d = "move_right" -> single_move_right(g, s, n, c)
      [] d = "move_up"    -> single_move_up(g, s, n, c)
      [] d = "move_down"  -> single_move_down(g, s, n, c)

(***************************************************************************)
(* High-score helpers                                                      *)
(*                                                                         *)
(* The content of HIGHSCORE_FILE is a record [kind, value]: the file may   *)
(* be absent, refuse to be opened, hold text that is not JSON (an empty    *)
(* file is), hold JSON that is not an object, hold an object without the   *)
(* key "highscore", or hold that key with a value int() rejects (null,     *)
(* "abc"), with a string of digits, or with an integer.                    *)
(***************************************************************************)
Absent == [kind |-> "absent", value |-> 0]

Unreadable == [kind |-> "unreadable", value |-> 0]

NotJson == [kind |-> "not_json", value |-> 0]

NotObject == [kind |-> "not_object", value |-> 0]

NoKey == [kind |-> "no_key", value |-> 0]

NotNumber == [kind |-> "not_number", value |-> 0]

Digits(v) == [kind |-> "digits", value |-> v]

Number(v) == [kind |-> "number", value |-> v]

\* The try block of load_highscore on the content f: the exception it ends
\* with ("" when it ends normally) and the value its return statement gives
\* (None, written -1, when the block ends without returning).
read_highscore(f) ==
    CASE f.kind = "absent"     -> [exc |-> "", returned |-> FALSE, ret |-> -1]
      [] f.kind = "unreadable" -> [exc |-> "PermissionError", returned |-> FALSE, ret |-> -1]
      [] f.kind = "not_json"   -> [exc |-> "JSONDecodeError", returned |-> FALSE, ret |-> -1]
      [] f.kind = "not_object" -> [exc |-> "AttributeError", returned |-> FALSE, ret |-> -1]
      [] f.kind = "no_key"     -> [exc |-> "", returned |-> TRUE, ret |-> 0]
      [] f.kind = "not_number" -> [exc |-> "ValueError", returned |-> FALSE, ret |-> -1]
      [] f.kind = "digits"     -> [exc |-> "", returned |-> TRUE, ret |-> f.value]
      [] f.kind = "number"     -> [exc |-> "", returned |-> TRUE, ret |-> f.value]

\* load_highscore without "except Exception: pass".
load_highscore_unguarded(f) ==
    LET r == read_highscore(f)
    IN  IF r.returned THEN [ret |-> r.ret, raised |-> FALSE]
        ELSE [ret |-> 0, raised |-> r.exc # ""]

\* load_highscore: the try block's return value, or 0 when the file does
\* not exist or the block raised.
load_highscore(f) ==
    LET r == read_highscore(f)
    IN  IF r.returned THEN [ret |-> r.ret, raised |-> FALSE]
        ELSE [ret |-> 0, raised |-> FALSE]

\* The try block of save_highscore: open may raise and leave the file as it
\* is; the write may raise after open has truncated the file; or the record
\* is written.
write_highscore(value, f) ==
    {[exc |-> "PermissionError", file |-> f],
     [exc |-> "OSError", file |-> NotJson],
     [exc |-> "", file |-> Number(value)]}

\* save_highscore: the try block with every exception swallowed.
save_highscore(value, f) ==
    {[file |-> w.file,
      saved |-> IF w.exc = "" THEN "written" ELSE "skipped",
      raised |-> FALSE] : w \in write_highscore(value, f)}

(***************************************************************************)
(* The window (GameUI)                                                     *)
(***************************************************************************)
\* The titles _key_move passes to _show_message.
YouWin == "You Win!"

GameOver == "Game Over"

\* _key_move asking can_move before is_win.
message_over_first(g, n) ==
    IF ~can_move(g, n) THEN {GameOver}
    ELSE IF is_win(g, n, WIN_TARGET) THEN {YouWin}
    ELSE {}

\* The messages _key_move shows after a successful move on the board g: the
\* if / elif over is_win() and can_move().
message(g, n) ==
    IF is_win(g, n, WIN_TARGET) THEN {YouWin}
    ELSE IF ~can_move(g, n) THEN {GameOver}
    ELSE {}

\* _key_move with "score >= highscore" in place of "score > highscore".
after_move_at_least(o, n, h, f) ==
    LET quiet == [grid |-> o.grid, score |-> o.score, ret |-> o.ret,
                  placed |-> o.placed, skipped |-> o.skipped,
                  highscore |-> h, file |-> f,
                  shown |-> {}, saved |-> "", raised |-> FALSE]
    IN  IF ~o.ret
        THEN {quiet}
        ELSE IF o.score >= h
             THEN {[quiet EXCEPT !.highscore = o.score,
                                 !.file = w.file,
                                 !.saved = w.saved,
                                 !.raised = w.raised,
                                 !.shown = IF w.raised THEN {} ELSE message(o.grid, n)] :
                      w \in save_highscore(o.score, f)}
             ELSE {[quiet EXCEPT !.shown = message(o.grid, n)]}

\* _key_move from the line after "moved = move_fn()": o is the outcome of
\* the move, h the window's high score, f the file.
after_move(o, n, h, f) ==
    LET quiet == [grid |-> o.grid, score |-> o.score, ret |-> o.ret,
                  placed |-> o.placed, skipped |-> o.skipped,
                  highscore |-> h, file |-> f,
                  shown |-> {}, saved |-> "", raised |-> FALSE]
    IN  IF ~o.ret
        THEN {quiet}
        ELSE IF o.score > h
             THEN {[quiet EXCEPT !.highscore = o.score,
                                 !.file = w.file,
                                 !.saved = w.saved,
                                 !.raised = w.raised,
                                 !.shown = IF w.raised THEN {} ELSE message(o.grid, n)] :
                      w \in save_highscore(o.score, f)}
             ELSE {[quiet EXCEPT !.shown = message(o.grid, n)]}

\* _key_move(move_fn) for the move named d.
key_move(d, g, s, n, h, f) ==
    UNION {after_move(o, n, h, f) : o \in move(d, g, s, n)}

\* restart, o being the outcome of its reset: the high score and the file
\* are left alone.
restart(o, h, f) ==
    [grid |-> o.grid, score |-> o.score, ret |-> o.ret,
     placed |-> o.placed, skipped |-> o.skipped,
     highscore |-> h, file |-> f,
     shown |-> {}, saved |-> "", raised |-> FALSE]

(***************************************************************************)
(* The state machine                                                       *)
(***************************************************************************)
LineIdle ==
    /\ line = <<>>
    /\ lop = "none"
    /\ lres = [line |-> <<>>, gained |-> 0]

SessionIdle ==
    /\ size = GRID_SIZE
    /\ grid = <<>>
    /\ score = 0
    /\ op = "none"
    /\ ret = FALSE
    /\ placed = 0
    /\ skipped = 0
    /\ old_grid = <<>>
    /\ old_score = 0
    /\ target = 0

\* No object of the single-file program's Game beside the session.
SingleIdle ==
    /\ single_grid = <<>>
    /\ single_score = 0
    /\ single_ret = FALSE
    /\ single_placed = 0

\* No window: the Game object is used on its own, as the tests use it.
WindowIdle ==
    /\ highscore = 0
    /\ file = Absent
    /\ event = "none"
    /\ shown = {}
    /\ saved = ""
    /\ raised = FALSE
    /\ old_highscore = 0
    /\ old_file = Absent

\* Game(size = n): the grid defaults to the empty list and the score to 0;
\* __post_init__ finds the grid empty and calls reset.
Construct(n) ==
    /\ size = n
    /\ \E o \in reset(n) :
          /\ grid = o.grid
          /\ score = o.score
          /\ placed = o.placed
          /\ skipped = o.skipped
    /\ op = "new"
    /\ ret = FALSE
    /\ old_grid = <<>>
    /\ old_score = 0
    /\ target = 0
    /\ LineIdle
    /\ SingleIdle

Init == WindowIdle /\ \E n \in Sizes : Construct(n)

InitScores == {0, 6}

\* The lines of length k over TileVals that add up to at most budget.
RECURSIVE LinesUpTo(_, _)
LinesUpTo(k, budget) ==
    IF k = 0
    THEN {<<>>}
    ELSE UNION {{<<v>> \o rest : rest \in LinesUpTo(k - 1, budget - v)} :
                v \in {w \in TileVals : w <= budget}}

Reshape(flat, n) ==
    List([r \in 1..n |-> List([c \in 1..n |-> flat[(r - 1) * n + c]], n)], n)

Boards(n) == {Reshape(flat, n) : flat \in LinesUpTo(n * n, MaxSum)}

\* A session holding the board b and the score s on which no method has
\* been called yet: Game(size = n, grid = b, score = s), or a session whose
\* grid the caller has overwritten, as the tests do.
Holding(n, b, s) ==
    /\ size = n
    /\ grid = b
    /\ score = s
    /\ op = "any"
    /\ ret = FALSE
    /\ placed = 0
    /\ skipped = 0
    /\ old_grid = b
    /\ old_score = s
    /\ target = 0
    /\ LineIdle
    /\ SingleIdle

\* The boards tests/test_game_logic.py writes into a default session.
SimpleMergeBoard == <<<<2, 2, 0, 0>>, <<0, 0, 0, 0>>, <<0, 0, 0, 0>>, <<0, 0, 0, 0>>>>

LockedBoard == <<<<2, 4, 2, 4>>, <<4, 2, 4, 2>>, <<2, 4, 2, 4>>, <<4, 2, 4, 2>>>>

InitAny ==
    /\ WindowIdle
    /\ \/ \E n \in BoardSizes : \E b \in Boards(n) : \E s \in InitScores : Holding(n, b, s)
       \/ \E b \in {SimpleMergeBoard, LockedBoard} : Holding(GRID_SIZE, b, 0)
       \/ Construct(GRID_SIZE)

Apply(name, o) ==
    /\ grid' = o.grid
    /\ score' = o.score
    /\ op' = name
    /\ ret' = o.ret
    /\ placed' = o.placed
    /\ skipped' = o.skipped
    /\ old_grid' = grid
    /\ old_score' = score
    /\ target' = 0
    /\ UNCHANGED <<size, lines, window, single>>

Reset == \E o \in reset(size) : Apply("reset", o)

\* A move that changes the board is taken only within the bound MaxSum.
Within(o) == o.ret => SumGrid(grid) <= MaxSum

MoveLeft == \E o \in move_left(grid, score, size) : Within(o) /\ Apply("move_left", o)

MoveRight == \E o \in move_right(grid, score, size) : Within(o) /\ Apply("move_right", o)

MoveUp == \E o \in move_up(grid, score, size) : Within(o) /\ Apply("move_up", o)

MoveDown == \E o \in move_down(grid, score, size) : Within(o) /\ Apply("move_down", o)

CanMove ==
    Apply("can_move", [grid |-> grid, score |-> score, ret |-> can_move(grid, size),
                       placed |-> 0, skipped |-> 0])

Next == Reset \/ MoveLeft \/ MoveRight \/ MoveUp \/ MoveDown \/ CanMove

\* Sessions from construction, under any sequence of calls.
Spec == Init /\ [][Next]_vars

\* One call on a session in any state.
Fresh == op \in {"any", "new"}

FirstReset == Fresh /\ Reset

FirstMoveLeft == Fresh /\ MoveLeft

FirstMoveRight == Fresh /\ MoveRight

FirstMoveUp == Fresh /\ MoveUp

FirstMoveDown == Fresh /\ MoveDown

FirstCanMove == Fresh /\ CanMove

\* _transpose_grid and _reverse_grid called on their own.
FirstTranspose ==
    /\ Fresh
    /\ Apply("transpose_grid", [grid |-> transpose_grid(grid), score |-> score,
                                ret |-> FALSE, placed |-> 0, skipped |-> 0])

FirstReverse ==
    /\ Fresh
    /\ Apply("reverse_grid", [grid |-> reverse_grid(grid), score |-> score,
                              ret |-> FALSE, placed |-> 0, skipped |-> 0])

NextAny ==
    \/ FirstReset
    \/ FirstMoveLeft
    \/ FirstMoveRight
    \/ FirstMoveUp
    \/ FirstMoveDown
    \/ FirstCanMove
    \/ FirstTranspose
    \/ FirstReverse

SpecAny == InitAny /\ [][NextAny]_vars

(***************************************************************************)
(* The window from its start: GameUI(root, Game()) as main() builds it,    *)
(* with the high-score file in any condition, under any sequence of keys.  *)
(***************************************************************************)
\* The file main() may find: none, or the record of an earlier session.
StartFiles == {Absent, Number(4)}

\* Board b is board a but for cells of the first MaxSpan rows and columns.
NearCorner(a, b, n) ==
    \A rc \in Cells(n) : (rc[1] > MaxSpan \/ rc[2] > MaxSpan) => b[rc[1]][rc[2]] = a[rc[1]][rc[2]]

\* The outcomes of reset on the window's session (of size GRID_SIZE) within
\* the bound MaxSpan.
CornerResets ==
    {o \in reset(GRID_SIZE) :
        NearCorner(List([r \in 1..GRID_SIZE |-> Zeros(GRID_SIZE)], GRID_SIZE),
                   o.grid, GRID_SIZE)}

\* GameUI.__init__ over a fresh default session: load_highscore.
Start(f) ==
    /\ Construct(GRID_SIZE)
    /\ NearCorner(List([r \in 1..GRID_SIZE |-> Zeros(GRID_SIZE)], GRID_SIZE), grid, GRID_SIZE)
    /\ file = f
    /\ highscore = load_highscore(f).ret
    /\ raised = load_highscore(f).raised
    /\ event = "start"
    /\ shown = {}
    /\ saved = ""
    /\ old_highscore = 0
    /\ old_file = f

InitUI == \E f \in StartFiles : Start(f)

\* The window has handled an event whose outcome is o.
Handle(kind, name, o) ==
    /\ grid' = o.grid
    /\ score' = o.score
    /\ op' = name
    /\ ret' = o.ret
    /\ placed' = o.placed
    /\ skipped' = o.skipped
    /\ old_grid' = grid
    /\ old_score' = score
    /\ target' = 0
    /\ highscore' = o.highscore
    /\ file' = o.file
    /\ event' = kind
    /\ shown' = o.shown
    /\ saved' = o.saved
    /\ raised' = o.raised
    /\ old_highscore' = highscore
    /\ old_file' = file
    /\ UNCHANGED <<size, lines, single>>

\* A key whose move changes the board is handled only within the bounds.
Key(d) ==
    LET slid == engine(d, grid)
    IN  /\ slid # grid => SumGrid(grid) <= 2 * MaxWindowTwos
        /\ \E o \in key_move(d, grid, score, size, highscore, file) :
              /\ o.ret => NearCorner(slid, o.grid, size)
              /\ Handle("key", d, o)

KeyLeft == Key("move_left")

KeyRight == Key("move_right")

KeyUp == Key("move_up")

KeyDown == Key("move_down")

\* The r key.  The board a restart throws away is not recorded: nothing of
\* it survives the reset.
KeyRestart ==
    \E r \in CornerResets :
        LET o == restart(r, highscore, file)
        IN  /\ grid' = o.grid
            /\ score' = o.score
            /\ op' = "reset"
            /\ ret' = o.ret
            /\ placed' = o.placed
            /\ skipped' = o.skipped
            /\ old_grid' = <<>>
            /\ old_score' = score
            /\ target' = 0
            /\ highscore' = o.highscore
            /\ file' = o.file
            /\ event' = "restart"
            /\ shown' = o.shown
            /\ saved' = o.saved
            /\ raised' = o.raised
            /\ old_highscore' = highscore
            /\ old_file' = file
            /\ UNCHANGED <<size, lines, single>>

NextUI == KeyLeft \/ KeyRight \/ KeyUp \/ KeyDown \/ KeyRestart

SpecUI == InitUI /\ [][NextUI]_vars

(***************************************************************************)
(* One event, or one query, on a window whose session is near its end: the *)
(* board's lower three rows are those of the locked board and its top row  *)
(* is any line over EndTiles.                                              *)
(***************************************************************************)
EndTiles == {0, 2, 4, 8, 1024, 2048}

RECURSIVE LinesOver(_, _)
LinesOver(vals, k) ==
    IF k = 0 THEN {<<>>}
    ELSE {<<v>> \o rest : v \in vals, rest \in LinesOver(vals, k - 1)}

EndBoards == {[LockedBoard EXCEPT ![1] = top] : top \in LinesOver(EndTiles, GRID_SIZE)}

\* GameUI.__init__ over a session that holds the board b and the score s,
\* the file holding f.
Open(b, s, f) ==
    /\ Holding(GRID_SIZE, b, s)
    /\ file = f
    /\ highscore = load_highscore(f).ret
    /\ raised = load_highscore(f).raised
    /\ event = "start"
    /\ shown = {}
    /\ saved = ""
    /\ old_highscore = 0
    /\ old_file = f

InitEnd ==
    \E b \in EndBoards : \E s \in InitScores : \E h \in {s, s + 4} : Open(b, s, Number(h))

Targets == {8, 1024, WIN_TARGET}

\* is_win(t), and is_win() with the default target.
IsWin(t) ==
    /\ op' = "is_win"
    /\ ret' = is_win(grid, size, t)
    /\ target' = t
    /\ placed' = 0
    /\ skipped' = 0
    /\ old_grid' = grid
    /\ old_score' = score
    /\ UNCHANGED <<size, grid, score, lines, window, single>>

FirstIsWin == Fresh /\ \E t \in Targets : IsWin(t)

FirstKey(d) ==
    /\ Fresh
    /\ \E o \in key_move(d, grid, score, size, highscore, file) : Handle("key", d, o)

FirstKeyLeft == FirstKey("move_left")

FirstKeyRight == FirstKey("move_right")

FirstKeyUp == FirstKey("move_up")

FirstKeyDown == FirstKey("move_down")

NextEnd ==
    \/ FirstKeyLeft
    \/ FirstKeyRight
    \/ FirstKeyUp
    \/ FirstKeyDown
    \/ FirstIsWin

SpecEnd == InitEnd /\ [][NextEnd]_vars

(***************************************************************************)
(* The two programs side by side: Game() of game.py and Game() of          *)
(* 2048_game.py, default construction, then the same calls under the same  *)
(* random choices.                                                         *)
(***************************************************************************)
Choices == [pick : 0..MaxPick, four : BOOLEAN]

\* The sequences of k choices.
RECURSIVE ChoiceSeqs(_)
ChoiceSeqs(k) ==
    IF k = 0 THEN {<<>>}
    ELSE UNION {{<<c>> \o rest : rest \in ChoiceSeqs(k - 1)} : c \in Choices}

\* Both objects have finished the same call, with the outcomes a and b.  The
\* board a reset throws away is not recorded: nothing of it survives.
Both(name, a, b) ==
    /\ grid' = a.grid
    /\ score' = a.score
    /\ op' = name
    /\ ret' = a.ret
    /\ placed' = a.placed
    /\ skipped' = 0
    /\ old_grid' = (IF name = "reset" THEN <<>> ELSE grid)
    /\ old_score' = score
    /\ target' = 0
    /\ single_grid' = b.grid
    /\ single_score' = b.score
    /\ single_ret' = b.ret
    /\ single_placed' = b.placed
    /\ UNCHANGED <<size, lines, window>>

\* Game() and Game(size = n) in both programs: grid and score are left to
\* their defaults, the empty list and 0.
ConstructBoth(n) ==
    \E cs \in ChoiceSeqs(START_TILES) :
        LET a == post_init_drawn(n, <<>>, 0, cs)
            b == single_post_init(n, <<>>, 0, cs)
        IN  /\ size = n
            /\ grid = a.grid
            /\ score = a.score
            /\ op = "new"
            /\ ret = a.ret
            /\ placed = a.placed
            /\ skipped = 0
            /\ old_grid = <<>>
            /\ old_score = 0
            /\ target = 0
            /\ single_grid = b.grid
            /\ single_score = b.score
            /\ single_ret = b.ret
            /\ single_placed = b.placed
            /\ LineIdle
            /\ WindowIdle

InitBoth == \E n \in Sizes \cup {GRID_SIZE} : ConstructBoth(n)

ResetBoth ==
    \E cs \in ChoiceSeqs(START_TILES) :
        Both("reset", reset_drawn(size, cs), single_reset(size, single_score, cs))

\* A move that changes the board is taken only within the bounds: MaxSum on
\* the small boards, MaxWindowTwos on the default one.
MoveBoth(d) ==
    /\ engine(d, grid) # grid =>
            SumGrid(grid) <= (IF size = GRID_SIZE THEN 2 * MaxWindowTwos ELSE MaxSum)
    /\ \E c \in Choices :
            Both(d, move_drawn(d, grid, score, size, c),
                    single_move(d, single_grid, single_score, size, c))

MoveLeftBoth == MoveBoth("move_left")

MoveRightBoth == MoveBoth("move_right")

MoveUpBoth == MoveBoth("move_up")

MoveDownBoth == MoveBoth("move_down")

NextBoth == ResetBoth \/ MoveLeftBoth \/ MoveRightBoth \/ MoveUpBoth \/ MoveDownBoth

SpecBoth == InitBoth /\ [][NextBoth]_vars

(***************************************************************************)
(* One key on a window opened with the high-score file in any condition,   *)
(* over the boards of the tests.                                           *)
(***************************************************************************)
\* The scores a record found at the start may hold.
StoredScores == {0, 4, 8}

FileContents ==
    {Absent, Unreadable, NotJson, NotObject, NoKey, NotNumber}
        \cup {Digits(v) : v \in StoredScores} \cup {Number(v) : v \in StoredScores}

InitStore ==
    \E b \in {SimpleMergeBoard, LockedBoard} : \E f \in FileContents : Open(b, 0, f)

NextStore == FirstKeyLeft \/ FirstKeyRight \/ FirstKeyUp \/ FirstKeyDown

SpecStore == InitStore /\ [][NextStore]_vars

\* The line primitives applied to any line.
Lines == UNION {LinesUpTo(k, k * MaxSum) : k \in 0..MaxLen}

InitLine ==
    /\ line \in Lines
    /\ lop = "none"
    /\ lres = [line |-> <<>>, gained |-> 0]
    /\ SessionIdle
    /\ WindowIdle
    /\ SingleIdle

CompressLine ==
    /\ lop' = "compress_line"
    /\ lres' = [line |-> compress_line(line), gained |-> 0]
    /\ UNCHANGED <<line, session, window, single>>

MergeLine ==
    /\ lop' = "merge_line"
    /\ lres' = merge_line(line)
    /\ UNCHANGED <<line, session, window, single>>

NextLine == CompressLine \/ MergeLine

SpecLine == InitLine /\ [][NextLine]_vars

(***************************************************************************)
(* Reference definitions the claims are stated with: the rules of the game *)
(* said directly, without the code's loops and grid transforms.            *)
(***************************************************************************)
\* The non-zero values of a line, in order.
RECURSIVE Tiles(_)
Tiles(l) ==
    IF l = <<>> THEN <<>>
    ELSE IF Head(l) = 0 THEN Tiles(Tail(l)) ELSE <<Head(l)>> \o Tiles(Tail(l))

\* The single-merge-per-pair rule on a line of tiles: an equal leading pair
\* becomes one tile of twice the value and the rule goes on after the pair.
RECURSIVE PairMerge(_)
PairMerge(t) ==
    IF Len(t) < 2 THEN t
    ELSE IF t[1] = t[2]
         THEN <<2 * t[1]>> \o PairMerge(SubSeq(t, 3, Len(t)))
         ELSE <<t[1]>> \o PairMerge(Tail(t))

\* The sum of the values of the tiles the rule creates.
RECURSIVE PairGain(_)
PairGain(t) ==
    IF Len(t) < 2 THEN 0
    ELSE IF t[1] = t[2]
         THEN 2 * t[1] + PairGain(SubSeq(t, 3, Len(t)))
         ELSE PairGain(Tail(t))

PadTo(t, k) == t \o Zeros(k - Len(t))

\* A line is packed when no zero has a non-zero value after it.
Packed(l) == \A i \in 1..(Len(l) - 1) : l[i] = 0 => l[i + 1] = 0

\* No two neighbours of the line are equal tiles.
NoEqualPair(l) == \A i \in 1..(Len(l) - 1) : l[i] # 0 => l[i] # l[i + 1]

(***************************************************************************)
(* C3: _merge_line obeys the single-merge-per-pair rule on every line: the *)
(* result is the packed line's tiles merged pair by pair from the left, a  *)
(* merged tile never merging again, packed and padded with zeros to the    *)
(* line's length, and gained is the sum of the doubled values; on          *)
(* [2,2,0,0] it gives ([4,0,0,0], 4) and on [2,2,2,2] ([4,4,0,0], 8).      *)
(***************************************************************************)
C3_MergeLinePairRule ==
    lop = "merge_line" =>
        /\ lres.line = PadTo(PairMerge(Tiles(line)), Len(line))
        /\ lres.gained = PairGain(Tiles(line))
        /\ Packed(lres.line)
        /\ (line = <<2, 2, 0, 0>> => lres = [line |-> <<4, 0, 0, 0>>, gained |-> 4])
        /\ (line = <<2, 2, 2, 2>> => lres = [line |-> <<4, 4, 0, 0>>, gained |-> 8])

\* A line on which a re-merge would differ: [2,2,4,0] gives [4,4,0,0], not [8,0,0,0].
C3_Witness ==
    /\ lop = "merge_line"
    /\ line = <<2, 2, 4, 0>>
    /\ lres = [line |-> <<4, 4, 0, 0>>, gained |-> 4]

\* Line k of the board read from the edge the move d slides toward: a row
\* from its left or right end, a column from its top or bottom end.
LineToward(d, g, k) ==
    LET n == Len(g)
    IN  CASE d = "move_left"  -> List([i \in 1..n |-> g[k][i]], n)
          [] d = "move_right" -> List([i \in 1..n |-> g[k][n + 1 - i]], n)
          [] d = "move_up"    -> List([i \in 1..n |-> g[i][k]], n)
          [] d = "move_down"  -> List([i \in 1..n |-> g[n + 1 - i][k]], n)

\* The line a cell lies on, and its place on that line counted from the edge.
LineOf(d, rc) == IF d \in {"move_left", "move_right"} THEN rc[1] ELSE rc[2]

PlaceOf(d, rc, n) ==
    CASE d = "move_left"  -> rc[2]
      [] d = "move_right" -> n + 1 - rc[2]
      [] d = "move_up"    -> rc[1]
      [] d = "move_down"  -> n + 1 - rc[1]

\* Sliding and merging every line of the board toward the edge of d.
Slid(d, g) ==
    LET n == Len(g)
        merged == List([k \in 1..n |-> PadTo(PairMerge(Tiles(LineToward(d, g, k))), n)], n)
    IN  List([r \in 1..n |->
                List([c \in 1..n |-> merged[LineOf(d, <<r, c>>)][PlaceOf(d, <<r, c>>, n)]], n)],
             n)

\* The sum of the values of all tiles the merges of that move create.
RECURSIVE GainFrom(_, _, _)
GainFrom(d, g, k) ==
    IF k > Len(g) THEN 0
    ELSE PairGain(Tiles(LineToward(d, g, k))) + GainFrom(d, g, k + 1)

Gained(d, g) == GainFrom(d, g, 1)

\* The cells in which two boards of dimension n differ.
Diff(a, b, n) == {rc \in Cells(n) : a[rc[1]][rc[2]] # b[rc[1]][rc[2]]}

\* Board b is board a with one of a's empty cells set to 2 or 4.
OneSpawn(a, b, n) ==
    \E rc \in Cells(n) :
        /\ a[rc[1]][rc[2]] = 0
        /\ b[rc[1]][rc[2]] \in {2, 4}
        /\ Diff(a, b, n) = {rc}

(***************************************************************************)
(* C1: for every board and each of the four session moves, the move        *)
(* returns true iff sliding and merging in that direction changes the      *)
(* board; when it returns true the score has grown by exactly the sum of   *)
(* the tiles the merges created and the board is the slid and merged grid  *)
(* with exactly one of its empty cells set to 2 or 4.                      *)
(***************************************************************************)
C1_MoveContract ==
    op \in Moves =>
        LET slid == Slid(op, old_grid)
        IN  /\ ret = (slid # old_grid)
            /\ ret => /\ score = old_score + Gained(op, old_grid)
                      /\ OneSpawn(slid, grid, size)

\* A move in which two lines merged (8 gained from two pairs of 2s or one
\* pair of 4s) on a session that held a score already.
C1_Witness ==
    /\ op \in Moves
    /\ ret
    /\ old_score = 6
    /\ score = 14
    /\ size = 3

(***************************************************************************)
(* C2: for every board and each direction, a move on a board whose every   *)
(* line is already packed toward that edge with no equal adjacent non-zero *)
(* pair returns false, leaves score and every cell unchanged, and the      *)
(* spawner is not run.                                                     *)
(***************************************************************************)
NothingToDo(d, g) ==
    \A k \in 1..Len(g) : Packed(LineToward(d, g, k)) /\ NoEqualPair(LineToward(d, g, k))

C2_NoChangeNoEffect ==
    (op \in Moves /\ NothingToDo(op, old_grid)) =>
        /\ ret = FALSE
        /\ score = old_score
        /\ grid = old_grid
        /\ placed = 0
        /\ skipped = 0

\* Such a move on a board that holds tiles and has room for a spawn.
C2_Witness ==
    /\ op \in Moves
    /\ NothingToDo(op, old_grid)
    /\ SumGrid(old_grid) > 0
    /\ EmptyCells(old_grid, size) # {}
    /\ ret = FALSE

(***************************************************************************)
(* C4: in every state reachable from construction or reset through moves   *)
(* and resets, the grid is a size x size matrix whose every cell is 0 or a *)
(* power of two that is at least 2.                                        *)
(***************************************************************************)
C4_GridWellFormed ==
    /\ Len(grid) = size
    /\ \A r \in 1..size : Len(grid[r]) = size
    /\ \A rc \in Cells(size) : grid[rc[1]][rc[2]] = 0 \/ IsTile(grid[rc[1]][rc[2]])

\* A board after a vertical move that merged two 4s into an 8.
C4_Witness ==
    /\ op \in {"move_up", "move_down"}
    /\ ret
    /\ score = old_score + 8
    /\ \E rc \in Cells(size) : grid[rc[1]][rc[2]] = 8

(***************************************************************************)
(* C5: move_right, move_up and move_down, built from move_left and the     *)
(* grid transforms with the spawn inside the transformed frame, have the   *)
(* same returned flag, the same score gain and the same set of possible    *)
(* resulting grids as sliding every row toward the right edge, every       *)
(* column toward the top edge or every column toward the bottom edge, the  *)
(* merging starting from the edge moved toward, followed by one spawn in   *)
(* any empty cell when the board changed.                                  *)
(***************************************************************************)
Spawns(g, n) ==
    {[g EXCEPT ![rc[1]][rc[2]] = v] :
        rc \in {x \in Cells(n) : g[x[1]][x[2]] = 0}, v \in {2, 4}}

DirectOutcomes(d, g, s, n) ==
    LET slid == Slid(d, g)
    IN  IF slid = g
        THEN {[grid |-> g, score |-> s, ret |-> FALSE]}
        ELSE {[grid |-> b, score |-> s + Gained(d, g), ret |-> TRUE] : b \in Spawns(slid, n)}

Observed(o) == [grid |-> o.grid, score |-> o.score, ret |-> o.ret]

C5_DerivedMoves ==
    Fresh =>
        \A d \in {"move_right", "move_up", "move_down"} :
            {Observed(o) : o \in move(d, grid, score, size)}
                = DirectOutcomes(d, grid, score, size)

\* A downward move on a column 2,2,2 (top to bottom): the lower pair merges
\* and the spawn lands on top of that column.
C5_Witness ==
    /\ op = "move_down"
    /\ size = 3
    /\ ret
    /\ \E c \in 1..3 :
          /\ old_grid[1][c] = 2 /\ old_grid[2][c] = 2 /\ old_grid[3][c] = 2
          /\ grid[3][c] = 4 /\ grid[2][c] = 2 /\ grid[1][c] \in {2, 4}

(***************************************************************************)
(* C6: can_move() is true iff some cell is empty or some two horizontally  *)
(* or vertically adjacent cells hold the same value; it is false on the    *)
(* full 4x4 alternating 2/4 checkerboard; the query changes neither grid   *)
(* nor score.                                                              *)
(***************************************************************************)
Adjacent(a, b) ==
    \/ a[1] = b[1] /\ (a[2] - b[2] = 1 \/ b[2] - a[2] = 1)
    \/ a[2] = b[2] /\ (a[1] - b[1] = 1 \/ b[1] - a[1] = 1)

Stalemate(g, n) ==
    /\ \A rc \in Cells(n) : g[rc[1]][rc[2]] # 0
    /\ \A a \in Cells(n), b \in Cells(n) : Adjacent(a, b) => g[a[1]][a[2]] # g[b[1]][b[2]]

C6_CanMove ==
    op = "can_move" =>
        /\ ret = ~Stalemate(old_grid, size)
        /\ (old_grid = LockedBoard => ret = FALSE)
        /\ grid = old_grid
        /\ score = old_score

\* The query answering false on the locked board of the tests.
C6_Witness ==
    /\ op = "can_move"
    /\ old_grid = LockedBoard
    /\ ret = FALSE

(***************************************************************************)
(* C7: from any session state, reset() leaves the score at 0 and a grid    *)
(* with exactly two non-zero cells, each 2 or 4, all other cells 0; a      *)
(* session created with default arguments starts in such a state.          *)
(***************************************************************************)
TwoStartTiles(g, n) ==
    /\ Cardinality({rc \in Cells(n) : g[rc[1]][rc[2]] # 0}) = 2
    /\ \A rc \in Cells(n) : g[rc[1]][rc[2]] \in {0, 2, 4}

C7_ResetTwoTiles ==
    /\ op = "reset" => score = 0 /\ TwoStartTiles(grid, size)
    /\ (op = "new" /\ size = GRID_SIZE) => score = 0 /\ TwoStartTiles(grid, size)

\* A reset of a session that held a full board and a score.
C7_Witness ==
    /\ op = "reset"
    /\ old_score = 6
    /\ EmptyCells(old_grid, size) = {}
    /\ score = 0

(***************************************************************************)
(* C8: in every state reachable from reset, the spawner never takes its    *)
(* no-empty-cell return: it places a tile exactly twice per construction   *)
(* or reset, exactly once per move that returns true, and is not called by *)
(* a move that returns false.                                              *)
(***************************************************************************)
C8_SpawnCounts ==
    /\ skipped = 0
    /\ op \in {"new", "reset"} => placed = START_TILES
    /\ op \in Moves => placed = (IF ret THEN 1 ELSE 0)

\* A move on a full board: the merge frees the one cell the spawner fills.
C8_Witness ==
    /\ op \in Moves
    /\ ret
    /\ EmptyCells(old_grid, size) = {}
    /\ placed = 1
    /\ EmptyCells(grid, size) = {}

(***************************************************************************)
(* C9 as claimed: after a successful move the new tile lies in a cell that *)
(* was empty before the move; move_left on the simple-merge board returns  *)
(* true, leaves row 0 as [4,0,0,0] and adds 4 to the score.                *)
(***************************************************************************)
C9_Original ==
    /\ (op \in Moves /\ ret) =>
          LET slid == Slid(op, old_grid)
          IN  \E rc \in Cells(size) :
                  /\ old_grid[rc[1]][rc[2]] = 0
                  /\ grid[rc[1]][rc[2]] \in {2, 4}
                  /\ Diff(slid, grid, size) = {rc}
    /\ (op = "move_left" /\ old_grid = SimpleMergeBoard) =>
          /\ ret
          /\ grid[1] = <<4, 0, 0, 0>>
          /\ score = old_score + 4

(***************************************************************************)
(* C9 as amended: after a successful move the new tile (2 or 4) lies in a  *)
(* cell that is empty once the lines have slid and merged, whether or not  *)
(* it was empty before the move, and every other cell holds what the slide *)
(* left there; move_left on the simple-merge board returns true, adds 4 to *)
(* the score and leaves row 0 as [4,0,0,0] or as that row with the new     *)
(* tile in one of its three empty cells.                                   *)
(***************************************************************************)
C9_SpawnAfterSlide ==
    /\ (op \in Moves /\ ret) =>
          LET slid == Slid(op, old_grid)
          IN  \E rc \in Cells(size) :
                  /\ slid[rc[1]][rc[2]] = 0
                  /\ grid[rc[1]][rc[2]] \in {2, 4}
                  /\ \A x \in Cells(size) \ {rc} : grid[x[1]][x[2]] = slid[x[1]][x[2]]
    /\ (op = "move_left" /\ old_grid = SimpleMergeBoard) =>
          /\ ret
          /\ score = old_score + 4
          /\ grid[1][1] = 4
          /\ \/ grid[1] = <<4, 0, 0, 0>>
             \/ \E c \in 2..4, v \in {2, 4} : grid[1] = [<<4, 0, 0, 0>> EXCEPT ![c] = v]

\* The simple-merge board moved left with the new tile in the cell the
\* second 2 has just left.
C9_Witness ==
    /\ op = "move_left"
    /\ old_grid = SimpleMergeBoard
    /\ ret
    /\ grid[1][2] \in {2, 4}

(***************************************************************************)
(* C10 as claimed: for every board and direction the engine move, without  *)
(* spawn, is idempotent: applied to its own result it returns that result. *)
(***************************************************************************)
C10_Original ==
    op \in Moves => engine(op, engine(op, old_grid)) = engine(op, old_grid)

(***************************************************************************)
(* C10 as amended: for every board and direction the engine move, without  *)
(* spawn, leaves every line packed toward the edge, and applied to its own *)
(* result it returns that result exactly when the first application left   *)
(* no two equal adjacent non-zero tiles along the direction of the move    *)
(* (on [2,2,4] the first gives [4,4,0] and the second [8,0,0]).            *)
(***************************************************************************)
C10_IdempotentOnceMerged ==
    op \in Moves =>
        LET once == engine(op, old_grid)
            twice == engine(op, once)
        IN  /\ \A k \in 1..size : Packed(LineToward(op, once, k))
            /\ (twice = once) = (\A k \in 1..size : NoEqualPair(LineToward(op, once, k)))

\* A move that merged, after which the same engine move changes nothing.
C10_Witness ==
    /\ op \in Moves
    /\ ret
    /\ score > old_score
    /\ engine(op, engine(op, old_grid)) = engine(op, old_grid)

(***************************************************************************)
(* C11: after the window has handled any key event, the high score is at   *)
(* least the session's score and not below what it was before the event;   *)
(* it is the larger of its old value and the score; a restart puts the     *)
(* score at 0 and leaves the high score alone; and save_highscore is       *)
(* called in an event exactly when a successful move has made the score    *)
(* strictly exceed the recorded value.                                     *)
(***************************************************************************)
C11_HighScoreFollowsScore ==
    event \in {"key", "restart"} =>
        /\ highscore >= score
        /\ highscore >= old_highscore
        /\ highscore = (IF score > old_highscore THEN score ELSE old_highscore)
        /\ (event = "restart" => score = 0 /\ highscore = old_highscore)
        /\ (saved # "") = (event = "key" /\ ret /\ score > old_highscore)

\* A second improvement in one run of the window: the recorded 4 is
\* replaced by 8 and written.
C11_Witness ==
    /\ event = "key"
    /\ ret
    /\ old_highscore = 4
    /\ score = 8
    /\ highscore = 8
    /\ saved = "written"

(***************************************************************************)
(* C12: the core does not halt in a terminal state: on a board on which    *)
(* is_win() is true every move is processed as on any other board (it      *)
(* returns true iff sliding changes the board, and then adds the merged    *)
(* tiles to the score and spawns one tile; otherwise it leaves grid and    *)
(* score alone), and on a board on which can_move() is false every move    *)
(* returns false and leaves grid and score alone.                          *)
(***************************************************************************)
C12_NoHaltWhenOver ==
    /\ (op \in Moves /\ is_win(old_grid, size, WIN_TARGET)) =>
          LET slid == Slid(op, old_grid)
          IN  /\ ret = (slid # old_grid)
              /\ ret => /\ score = old_score + Gained(op, old_grid)
                        /\ OneSpawn(slid, grid, size)
              /\ ~ret => grid = old_grid /\ score = old_score
    /\ (op \in Moves /\ ~can_move(old_grid, size)) =>
          /\ ret = FALSE
          /\ grid = old_grid
          /\ score = old_score

\* A move on a won board that merges two tiles and spawns.
C12_Witness ==
    /\ op \in Moves
    /\ is_win(old_grid, size, WIN_TARGET)
    /\ ret
    /\ score > old_score
    /\ placed = 1

\* The largest value of a line, and of a board (0 for an empty one).
RECURSIVE MaxSeq(_)
MaxSeq(l) ==
    IF l = <<>> THEN 0
    ELSE LET rest == MaxSeq(Tail(l)) IN IF Head(l) > rest THEN Head(l) ELSE rest

RECURSIVE MaxTile(_)
MaxTile(g) ==
    IF g = <<>> THEN 0
    ELSE LET rest == MaxTile(Tail(g))
             first == MaxSeq(Head(g))
         IN  IF first > rest THEN first ELSE rest

(***************************************************************************)
(* C13: is_win(target) returns true iff the largest tile of the grid is at *)
(* least target, for the default target iff it is at least 2048, and the   *)
(* call changes neither grid nor score.                                    *)
(***************************************************************************)
C13_IsWin ==
    op = "is_win" =>
        /\ ret = (MaxTile(old_grid) >= target)
        /\ (target = WIN_TARGET => ret = (MaxTile(old_grid) >= 2048))
        /\ grid = old_grid
        /\ score = old_score

\* The default query on a board whose largest tile is exactly 2048.
C13_Witness ==
    /\ op = "is_win"
    /\ target = WIN_TARGET
    /\ MaxTile(old_grid) = 2048
    /\ ret

C15_Involutions ==
    /\ op = "transpose_grid" =>
          /\ \A rc \in Cells(size) : grid[rc[2]][rc[1]] = old_grid[rc[1]][rc[2]]
          /\ transpose_grid(grid) = old_grid
    /\ op = "reverse_grid" =>
          /\ \A rc \in Cells(size) : grid[rc[1]][size + 1 - rc[2]] = old_grid[rc[1]][rc[2]]
          /\ reverse_grid(grid) = old_grid

\* A 3x3 board that is not symmetric, transposed.
C15_Witness ==
    /\ op = "transpose_grid"
    /\ size = 3
    /\ old_grid[1][3] = 2
    /\ old_grid[3][1] = 4
    /\ grid[1][3] = 4
    /\ grid[3][1] = 2

(***************************************************************************)
(* C16: for every line, _compress_line returns a line of the same length   *)
(* that holds the non-zero values of its argument in their order at the    *)
(* left and only zeros after them; on a line that is already packed to the *)
(* left it returns that line.                                              *)
(***************************************************************************)
C16_CompressLine ==
    lop = "compress_line" =>
        /\ Len(lres.line) = Len(line)
        /\ Tiles(lres.line) = Tiles(line)
        /\ SubSeq(lres.line, 1, Len(Tiles(line))) = Tiles(line)
        /\ \A i \in (Len(Tiles(line)) + 1)..Len(line) : lres.line[i] = 0
        /\ (Packed(line) => lres.line = line)

\* A line with gaps: 2 and 4 keep their order and move to the left.
C16_Witness ==
    /\ lop = "compress_line"
    /\ line = <<0, 2, 0, 4>>
    /\ lres.line = <<2, 4, 0, 0>>

(***************************************************************************)
(* C17 as claimed: whenever a successful move leaves the board in          *)
(* stalemate the window signals "game over" while handling that move,      *)
(* whenever a successful move leaves a tile at or above the target it      *)
(* signals "win", and an unsuccessful move signals nothing.                *)
(***************************************************************************)
C17_Original ==
    event = "key" =>
        /\ (ret /\ Stalemate(grid, size)) => GameOver \in shown
        /\ (ret /\ MaxTile(grid) >= WIN_TARGET) => YouWin \in shown
        /\ ~ret => shown = {}

(***************************************************************************)
(* C17 as amended: whenever a successful move leaves a tile at or above    *)
(* the target the window signals "win" and nothing else, also when the     *)
(* board is then in stalemate; whenever a successful move leaves the board *)
(* in stalemate with every tile below the target it signals "game over";   *)
(* any other successful move and every unsuccessful move signal nothing.   *)
(***************************************************************************)
C17_WinBeforeGameOver ==
    event = "key" =>
        shown = (IF ~ret THEN {}
                 ELSE IF MaxTile(grid) >= WIN_TARGET THEN {YouWin}
                 ELSE IF Stalemate(grid, size) THEN {GameOver}
                 ELSE {})

\* A move that ends in stalemate with a 2048 on the board: only the win is
\* signalled.
C17_Witness ==
    /\ event = "key"
    /\ ret
    /\ Stalemate(grid, size)
    /\ MaxTile(grid) >= WIN_TARGET
    /\ shown = {YouWin}

(***************************************************************************)
(* C18: on every board a session can hold after reset (at least one tile   *)
(* is on it), can_move() is true iff at least one of move_left,            *)
(* move_right, move_up, move_down would return true; so in stalemate every *)
(* move returns false and leaves grid and score unchanged, and only        *)
(* reset() leads out of it.                                                *)
(***************************************************************************)
SomeMoveSucceeds(g, s, n) == \E d \in Moves : \E o \in move(d, g, s, n) : o.ret

C18_CanMoveIffSomeMove ==
    /\ (op = "can_move" /\ SumGrid(old_grid) > 0) =>
            ret = SomeMoveSucceeds(old_grid, old_score, size)
    /\ (op \in Moves /\ Stalemate(old_grid, size)) =>
            /\ ~ret
            /\ grid = old_grid
            /\ score = old_score
            /\ ~can_move(grid, size)
    /\ (op = "reset" /\ Stalemate(old_grid, size)) => can_move(grid, size)

\* A move called on a board in stalemate.
C18_Witness ==
    /\ op \in Moves
    /\ Stalemate(old_grid, size)
    /\ ~ret
    /\ grid = old_grid

(***************************************************************************)
(* C19: sliding and merging conserve the sum of all tile values: after     *)
(* every move that returns true the sum of the grid is the sum before the  *)
(* move plus the value of the single spawned tile (2 or 4), and the number *)
(* of non-zero cells is the number before, minus the number of merges,     *)
(* plus one.                                                               *)
(***************************************************************************)
\* The number of merges of the pair rule on a line of tiles.
RECURSIVE PairCount(_)
PairCount(t) ==
    IF Len(t) < 2 THEN 0
    ELSE IF t[1] = t[2]
         THEN 1 + PairCount(SubSeq(t, 3, Len(t)))
         ELSE PairCount(Tail(t))

RECURSIVE MergesFrom(_, _, _)
MergesFrom(d, g, k) ==
    IF k > Len(g) THEN 0
    ELSE PairCount(Tiles(LineToward(d, g, k))) + MergesFrom(d, g, k + 1)

Merges(d, g) == MergesFrom(d, g, 1)

TileCount(g, n) == Cardinality({rc \in Cells(n) : g[rc[1]][rc[2]] # 0})

C19_SumConserved ==
    (op \in Moves /\ ret) =>
        LET slid == engine(op, old_grid)
        IN  /\ SumGrid(slid) = SumGrid(old_grid)
            /\ TileCount(slid, size) = TileCount(old_grid, size) - Merges(op, old_grid)
            /\ \E rc \in Cells(size) :
                    /\ Diff(slid, grid, size) = {rc}
                    /\ slid[rc[1]][rc[2]] = 0
                    /\ grid[rc[1]][rc[2]] \in {2, 4}
                    /\ SumGrid(grid) = SumGrid(old_grid) + grid[rc[1]][rc[2]]
            /\ TileCount(grid, size) =
                    TileCount(old_grid, size) - Merges(op, old_grid) + 1

\* A move with two merges after which a 4 appeared: five tiles become four.
C19_Witness ==
    /\ op \in Moves
    /\ ret
    /\ Merges(op, old_grid) = 2
    /\ TileCount(old_grid, size) = 5
    /\ TileCount(grid, size) = 4
    /\ SumGrid(grid) = SumGrid(old_grid) + 4

(***************************************************************************)
(* C20: the largest tile on the board never decreases across a move, so    *)
(* for every target, once is_win(target) is true it is true after every    *)
(* further move in any direction (and after can_move()); reset() is the    *)
(* one call after which it can be false again.                             *)
(***************************************************************************)
\* The targets a drawn board can reach, and the default.
ReachedTargets == (TileVals \ {0}) \cup {WIN_TARGET}

C20_LargestTileNeverDecreases ==
    /\ op \in Moves \cup {"can_move"} =>
            /\ MaxTile(grid) >= MaxTile(old_grid)
            /\ \A t \in ReachedTargets :
                    is_win(old_grid, size, t) => is_win(grid, size, t)
    /\ op = "reset" =>
            /\ MaxTile(grid) \in {2, 4}
            /\ \A t \in ReachedTargets : t > 4 => ~is_win(grid, size, t)

\* A merge of two 4s on a board that had reached the target 4: the 8 it
\* makes keeps is_win(4) true and makes is_win(8) true.
C20_Witness ==
    /\ op \in Moves
    /\ ret
    /\ MaxTile(old_grid) = 4
    /\ MaxTile(grid) = 8
    /\ is_win(old_grid, size, 4)
    /\ is_win(grid, size, 4)
    /\ ~is_win(old_grid, size, 8)
    /\ is_win(grid, size, 8)

(***************************************************************************)
(* C21: in every state reachable from reset the score is a non-negative    *)
(* multiple of 4; it never decreases across a move (only reset() lowers    *)
(* it, to 0), and it increases in a move only if that move merged at least *)
(* one pair.                                                               *)
(***************************************************************************)
C21_ScoreMultipleOfFour ==
    /\ score >= 0
    /\ score % 4 = 0
    /\ op \in Moves \cup {"can_move"} => score >= old_score
    /\ (op \in Moves /\ score > old_score) => ret /\ Merges(op, old_grid) >= 1
    /\ (op \in Moves /\ Merges(op, old_grid) = 0) => score = old_score
    /\ op \in {"reset", "new"} => score = 0

\* A move that merged a pair on a session whose score was above 0 already.
C21_Witness ==
    /\ op \in Moves
    /\ ret
    /\ old_score > 0
    /\ score > old_score
    /\ Merges(op, old_grid) >= 1

(***************************************************************************)
(* C22: the Game class of the single-file program (2048_game.py) and the   *)
(* Game class of game.py are observationally equivalent: from default      *)
(* construction, under the same sequence of reset and move calls with the  *)
(* same random choices, they return the same move results and hold the     *)
(* same grid and score after every call (and have drawn as many random     *)
(* choices).                                                               *)
(***************************************************************************)
C22_SameGame ==
    op \in {"new", "reset"} \cup Moves =>
        /\ single_grid = grid
        /\ single_score = score
        /\ single_ret = ret
        /\ single_placed = placed

\* Both programs after a reset that followed a merge: the score both had
\* reached is 0 again in both.
C22_Witness ==
    /\ op = "reset"
    /\ old_score > 0
    /\ single_grid = grid
    /\ single_score = 0
    /\ score = 0
    /\ placed = START_TILES
    /\ single_placed = START_TILES

====
